---- MODULE Spec2Model ----
(***************************************************************************)
(* Model of the Meta on/off scheduler.  The repository holds two servers:  *)
(*   - the sqlite server (src/unnamed/part_000): rules in a sqlite table,  *)
(*     registry `jobs`, enforcement through enforce / periodicEnforce;     *)
(*   - the json server (src/unnamed/part_001): rules in rules.json,        *)
(*     registry `schedulers`, enforcement through the cron callbacks of    *)
(*     scheduleRule and enforceRule.                                       *)
(* A behaviour runs one of the two servers (variable impl).                *)
(***************************************************************************)
EXTENDS Integers, Sequences, FiniteSets, Bags, TLC

VARIABLES
  impl,        \* which server this behaviour runs: "sqlite" or "json"
  ev,          \* one evaluation of the window evaluators (pure functions)
  ap,          \* one run of setStatus (sqlite server) against the provider
  booted,      \* startup: "no", "reading" (json server, rules.json being read), "yes"
  db,          \* sqlite server: the rows of table rules
  seq,         \* sqlite server: the AUTOINCREMENT sequence of table rules
  jobs,        \* sqlite server: the Map jobs, rule id -> {stop, start, enforce}
  rulesFile,   \* json server: the array "rules" of rules.json
  schedulers,  \* json server: the Map schedulers, rule id -> [job1, job2, job3]
  clock,       \* json server: Date.now()
  reqs,        \* json server: the request handlers between two awaits
  cronTasks,   \* node-cron: the tasks that are scheduled and not stopped
  inflight,    \* the bag of enforcement invocations that have not settled
  latest       \* history: rule id -> the rule object last given to scheduleRule

evalVars == <<ev, ap>>
sqliteVars == <<db, seq, jobs>>
jsonVars == <<rulesFile, schedulers, clock, reqs>>
vars == <<impl, ev, ap, booted, db, seq, jobs, rulesFile, schedulers, clock, reqs,
          cronTasks, inflight, latest>>

(***************************************************************************)
(* Values                                                                  *)
(***************************************************************************)
Null == "null"

\* dayjs().day(): 0 is Sunday
Weekdays == 0..6

\* Intl.DateTimeFormat('en-US', {weekday: 'short'}) of a weekday
WeekdayShort(d) == <<"Sun", "Mon", "Tue", "Wed", "Thu", "Fri", "Sat">>[d + 1]

\* the default days_of_week of POST /api/rules (sqlite server)
DefaultDaysOfWeek == <<"Mon", "Tue", "Wed", "Thu", "Fri", "Sat", "Sun">>

\* the default days of POST /api/rules (json server)
DefaultDays == <<0, 1, 2, 3, 4, 5, 6>>

MinPerHour == 60
MinutesOfDay == 0..(24 * MinPerHour - 1)

(***************************************************************************)
(* Text: a "HH:MM" string is the token sequence <<HH, ":", MM>>; a JSON    *)
(* array text is "[", the elements separated by ",", "]".                  *)
(***************************************************************************)
TimeText(h, m) == <<h, ":", m>>

\* a time text that is not "HH:MM": the text "x"
MalformedTime == <<"x">>
WellFormed(s) == Len(s) = 3

\* s.split(':').map(Number)  /  s.split(':').map(v => parseInt(v, 10)), of a
\* well-formed time text
SplitTime(s) == <<s[1], s[3]>>

RECURSIVE JoinComma(_)
JoinComma(arr) ==
  IF Len(arr) = 0 THEN <<>>
  ELSE IF Len(arr) = 1 THEN <<arr[1]>>
  ELSE <<arr[1], ",">> \o JoinComma(Tail(arr))

\* JSON.stringify of an array of strings
JSONstringify(arr) == <<"[">> \o JoinComma(arr) \o <<"]">>

\* JSON.parse of an array text: the elements between the separators
JSONparse(text) == [i \in 1..((Len(text) - 1) \div 2) |-> text[2 * i]]

Includes(arr, x) == \E i \in 1..Len(arr) : arr[i] = x

(***************************************************************************)
(* Time window evaluators                                                  *)
(***************************************************************************)
\* sqlite server, periodicEnforce: the desired state at local minute cur
periodicEnforceDesired(rule, cur) ==
  LET st == SplitTime(rule.stop_time)
      tt == SplitTime(rule.start_time)
      stopMin == st[1] * MinPerHour + st[2]
      startMin == tt[1] * MinPerHour + tt[2]
  IN IF stopMin < startMin
       THEN (IF cur >= stopMin /\ cur < startMin THEN "PAUSED" ELSE "ACTIVE")
       ELSE (IF cur >= stopMin \/ cur < startMin THEN "PAUSED" ELSE "ACTIVE")

\* json server, inActiveWindow(rule, now): now is a dayjs value, read in the
\* server's own zone: [day, hour, minute]
inActiveWindow(rule, now) ==
  LET day == now.day
      t(s) == SplitTime(s)[1] * MinPerHour + SplitTime(s)[2]
      mins == now.hour * MinPerHour + now.minute
      start == t(rule.start)
      stop == t(rule.stop)
  IN \* !rule.days || !Array.isArray(rule.days) || rule.days.length === 0
     IF Len(rule.days) = 0 THEN TRUE
     ELSE IF ~Includes(rule.days, day) THEN FALSE
     \* parseInt gives NaN: start === stop and start < stop are false, and
     \* so is the conjunction that is negated
     ELSE IF ~(WellFormed(rule.start) /\ WellFormed(rule.stop)) THEN TRUE
     ELSE IF start = stop THEN FALSE
     ELSE IF start < stop THEN mins >= start /\ mins < stop
     ELSE ~(mins >= stop /\ mins < start)

\* json server, enforceRule: the status the periodic check applies
enforceRuleStatus(rule, now) == IF inActiveWindow(rule, now) THEN "ACTIVE" ELSE "PAUSED"

\* the server's wall clock (dayjs()) when the rule's zone shows weekday dow,
\* minute-of-day m and the server's zone is `ahead` minutes ahead of it
ServerNow(dow, m, ahead) ==
  LET total == m + ahead
      dayShift == IF total >= 24 * MinPerHour THEN 1 ELSE IF total < 0 THEN 6 ELSE 0
      mm == (total + 24 * MinPerHour) % (24 * MinPerHour)
  IN [day |-> (dow + dayShift) % 7, hour |-> mm \div MinPerHour, minute |-> mm % MinPerHour]

\* no server is running: nothing stored, registered, scheduled or in flight
ServerIdle ==
  /\ booted = "no" /\ db = {} /\ seq = 0 /\ jobs = <<>>
  /\ rulesFile = <<>> /\ schedulers = <<>> /\ clock = 0 /\ reqs = <<>>
  /\ cronTasks = {} /\ inflight = <<>> /\ latest = <<>>

(***************************************************************************)
(* Evaluation of the evaluators on drawn inputs                            *)
(***************************************************************************)
\* stop / start times the evaluations draw from (both window shapes, the
\* degenerate window, the day's first and last minute)
SampleTimes == {TimeText(0, 0), TimeText(6, 0), TimeText(22, 0), TimeText(23, 59)}

\* day lists of the json server the evaluations draw from
SampleDays == {<<>>, <<1>>, DefaultDays}

\* minutes the server's zone may be ahead of the rule's zone
SampleAhead == {0, 120}

EvalInit ==
  /\ impl = "sqlite" /\ ap = [pc |-> "idle"] /\ ServerIdle
  /\ ev \in [pc : {"drawn"},
          stop : SampleTimes, start : SampleTimes, days : SampleDays,
          dow : {1, 2}, m : MinutesOfDay, ahead : SampleAhead,
          sqlite : {"none"}, json : {"none"}]

\* one periodic check of each server at local weekday ev.dow, minute ev.m
Evaluate ==
  /\ ev.pc = "drawn"
  /\ ev' = [ev EXCEPT
       !.pc = "evaluated",
       !.sqlite = periodicEnforceDesired([stop_time |-> ev.stop, start_time |-> ev.start], ev.m),
       !.json = enforceRuleStatus([stop |-> ev.stop, start |-> ev.start, days |-> ev.days],
                                  ServerNow(ev.dow, ev.m, ev.ahead))]
  /\ UNCHANGED <<impl, latest, ap, booted, sqliteVars, jsonVars, cronTasks, inflight>>

EvalNext == Evaluate

SpecEval == EvalInit /\ [][EvalNext]_vars

(***************************************************************************)
(* State applier of the sqlite server: setStatus                           *)
(***************************************************************************)
\* what one axios.post to the provider comes back with
OkOutcome == [ok |-> TRUE, hasCode |-> FALSE, code |-> 0]
\* an error response carrying error.code = c
ErrCode(c) == [ok |-> FALSE, hasCode |-> TRUE, code |-> c]
\* a failure with no response, or a response without error.code
NoCodeError == [ok |-> FALSE, hasCode |-> FALSE, code |-> 0]

TransientCodes == {1, 2, 4, 17, 32, 613, 80004}
MaxAttempts == 3

\* codes the provider answers with: the allow-list and two codes outside it
ProviderCodes == TransientCodes \cup {100, 190}
Outcomes == {OkOutcome, NoCodeError} \cup {ErrCode(c) : c \in ProviderCodes}

\* [1,2,4,17,32,613,80004].includes(e.response?.data?.error?.code)
transient(o) == o.hasCode /\ o.code \in TransientCodes

\* a loop body that retries whatever the failure
setStatusRetriesAll(attempt, o) ==
  IF o.ok THEN "return" ELSE IF attempt < MaxAttempts THEN "retry" ELSE "throw"

\* setStatus, one pass of the loop body once the post of this attempt has
\* come back with o: "return", "retry" (after the delay) or "throw"
setStatusAfter(attempt, o) ==
  IF o.ok THEN "return"
  ELSE IF attempt < MaxAttempts /\ transient(o) THEN "retry"
  ELSE "throw"

ApplyInit ==
  /\ impl = "sqlite" /\ ev = [pc |-> "idle"] /\ ServerIdle
  /\ ap = [pc |-> "posting", attempt |-> 1, hist |-> <<>>, thrown |-> NoCodeError]

\* the provider answers the post in flight
ApplyResponse ==
  /\ ap.pc = "posting"
  /\ \E o \in Outcomes :
       LET next == setStatusAfter(ap.attempt, o)
       IN ap' = [ap EXCEPT
            !.hist = Append(@, o),
            !.pc = CASE next = "return" -> "returned"
                     [] next = "retry" -> "delay"
                     [] OTHER -> "thrown",
            !.thrown = IF next = "throw" THEN o ELSE @]
  /\ UNCHANGED <<impl, latest, ev, booted, sqliteVars, jsonVars, cronTasks, inflight>>

\* the delay of 500 * attempt ms is over: the next attempt posts
ApplyDelayOver ==
  /\ ap.pc = "delay"
  /\ ap' = [ap EXCEPT !.attempt = @ + 1, !.pc = "posting"]
  /\ UNCHANGED <<impl, latest, ev, booted, sqliteVars, jsonVars, cronTasks, inflight>>

ApplyNext == ApplyResponse \/ ApplyDelayOver

SpecApply == ApplyInit /\ [][ApplyNext]_vars

(***************************************************************************)
(* node-cron: a task is its expression, its kind and the rule object its   *)
(* callback closes over; cron.schedule starts it, task.stop() ends it.     *)
(***************************************************************************)
\* the expression `${minute} ${hour} * * *`
CronAt(minute, hour) == [form |-> "at", minute |-> minute, hour |-> hour]
\* the expression `*/${step} * * * *`
CronEvery(step) == [form |-> "every", step |-> step]

\* the expression matches local time h:m
CronMatches(expr, h, m) ==
  IF expr.form = "at" THEN expr.hour = h /\ expr.minute = m
  ELSE m % expr.step = 0

CronTask(kind, expr, rule) == [kind |-> kind, expr |-> expr, rule |-> rule]

\* an optional value of a request body: absent, or present with a value
None == <<>>
Some(x) == <<x>>
IsSome(o) == Len(o) = 1
Val(o) == o[1]

Max(a, b) == IF a >= b THEN a ELSE b
Min(a, b) == IF a <= b THEN a ELSE b

(***************************************************************************)
(* sqlite server: the registry jobs                                        *)
(***************************************************************************)
\* the registry and node-cron's live tasks, as scheduleRule and
\* unscheduleRule read and write them
Registry(map, tasks) == [map |-> map, tasks |-> tasks]

MapSet(map, k, v) == [i \in DOMAIN map \cup {k} |-> IF i = k THEN v ELSE map[i]]
MapDelete(map, k) == [i \in DOMAIN map \ {k} |-> map[i]]

\* a teardown that forgets the entry and leaves its tasks running
unscheduleRuleKeepsTasks(reg, ruleId) == Registry(MapDelete(reg.map, ruleId), reg.tasks)

unscheduleRule(reg, ruleId) ==
  IF ruleId \notin DOMAIN reg.map THEN reg
  ELSE LET j == reg.map[ruleId]
       IN Registry(MapDelete(reg.map, ruleId), reg.tasks \ {j.stop, j.start, j.enforce})

\* Math.max(5, Number(rule.enforce_window_minutes) || 30)
everyXMins(rule) ==
  Max(5, IF rule.enforce_window_minutes = 0 THEN 30 ELSE rule.enforce_window_minutes)

scheduleRule(reg, rule) ==
  LET r0 == unscheduleRule(reg, rule.id)
      st == SplitTime(rule.stop_time)
      tt == SplitTime(rule.start_time)
      stop == CronTask("stop", CronAt(st[2], st[1]), rule)
      start == CronTask("start", CronAt(tt[2], tt[1]), rule)
      enforceTask == CronTask("enforce", CronEvery(everyXMins(rule)), rule)
  IN IF rule.enabled = 0 THEN r0
     \* "x".split(':').map(Number) is [NaN]: cron.schedule(`undefined NaN * * *`)
     \* throws on the expression, before or after the stop task was started
     ELSE IF ~WellFormed(rule.stop_time) THEN r0
     ELSE IF ~WellFormed(rule.start_time) THEN Registry(r0.map, r0.tasks \cup {stop})
     ELSE Registry(MapSet(r0.map, rule.id,
                          [stop |-> stop, start |-> start, enforce |-> enforceTask]),
                   r0.tasks \cup {stop, start, enforceTask})

\* for (const r of rows) scheduleRule(r), rows in rowid order
RECURSIVE scheduleRows(_, _)
scheduleRows(reg, rows) ==
  IF rows = {} THEN reg
  ELSE LET r == CHOOSE x \in rows : \A y \in rows : x.id <= y.id
       IN scheduleRows(scheduleRule(reg, r), rows \ {r})

(***************************************************************************)
(* sqlite server: the rule table and its handlers                          *)
(***************************************************************************)
\* most rules the table ever holds (AUTOINCREMENT never reuses an id)
MaxRules == 2
RuleIds == 1..MaxRules

\* the row POST /api/rules inserts for request body r
insertedRow(id, r) ==
  [id |-> id,
   target_ids |-> JSONstringify(IF IsSome(r.target_ids) THEN Val(r.target_ids) ELSE <<>>),
   name_filter |-> r.name_filter,
   stop_time |-> r.stop_time,
   start_time |-> r.start_time,
   enforce_window_minutes |-> IF r.enforce_window_minutes = 0 THEN 30
                              ELSE r.enforce_window_minutes,
   days_of_week |-> JSONstringify(IF IsSome(r.days_of_week) THEN Val(r.days_of_week)
                                  ELSE DefaultDaysOfWeek),
   enabled |-> IF r.enabled THEN 1 ELSE 0,
   last_run |-> Null]

\* the row PATCH /api/rules/:id leaves for row and request body b
patchedRow(row, b) ==
  [id |-> row.id,
   target_ids |-> JSONstringify(IF IsSome(b.target_ids) THEN Val(b.target_ids)
                                ELSE JSONparse(row.target_ids)),
   name_filter |-> IF IsSome(b.name_filter) THEN Val(b.name_filter) ELSE row.name_filter,
   stop_time |-> IF IsSome(b.stop_time) THEN Val(b.stop_time) ELSE row.stop_time,
   start_time |-> IF IsSome(b.start_time) THEN Val(b.start_time) ELSE row.start_time,
   enforce_window_minutes |-> IF IsSome(b.enforce_window_minutes)
                              THEN Val(b.enforce_window_minutes)
                              ELSE row.enforce_window_minutes,
   days_of_week |-> JSONstringify(IF IsSome(b.days_of_week) THEN Val(b.days_of_week)
                                  ELSE JSONparse(row.days_of_week)),
   enabled |-> IF IsSome(b.enabled) THEN (IF Val(b.enabled) THEN 1 ELSE 0) ELSE row.enabled,
   last_run |-> row.last_run]

RowsWithId(id) == {r \in db : r.id = id}

\* app.post('/api/rules'): insert, read the row back, scheduleRule(row)
PostRules(bodies) ==
  /\ impl = "sqlite" /\ booted = "yes"
  /\ seq < MaxRules
  /\ \E r \in bodies :
       LET row == insertedRow(seq + 1, r)
           reg == scheduleRule(Registry(jobs, cronTasks), row)
       IN /\ db' = db \cup {row}
          /\ seq' = seq + 1
          /\ jobs' = reg.map
          /\ cronTasks' = reg.tasks
          /\ latest' = MapSet(latest, row.id, row)
  /\ UNCHANGED <<impl, evalVars, booted, jsonVars, inflight>>

\* app.patch('/api/rules/:id'): 404 without the row; else update, read the
\* row back, scheduleRule(updated)
PatchRules(patches) ==
  /\ impl = "sqlite" /\ booted = "yes"
  /\ \E row \in db, b \in patches :
       LET updated == patchedRow(row, b)
           reg == scheduleRule(Registry(jobs, cronTasks), updated)
       IN /\ db' = (db \ {row}) \cup {updated}
          /\ jobs' = reg.map
          /\ cronTasks' = reg.tasks
          /\ latest' = MapSet(latest, updated.id, updated)
  /\ UNCHANGED <<impl, evalVars, booted, seq, jsonVars, inflight>>

\* app.delete('/api/rules/:id'): delete the row, unscheduleRule(id)
DeleteRules ==
  /\ impl = "sqlite" /\ booted = "yes"
  /\ \E id \in RuleIds :
       LET reg == unscheduleRule(Registry(jobs, cronTasks), id)
       IN /\ db' = db \ RowsWithId(id)
          /\ jobs' = reg.map
          /\ cronTasks' = reg.tasks
          /\ latest' = MapDelete(latest, id)
  /\ UNCHANGED <<impl, evalVars, booted, seq, jsonVars, inflight>>

\* (function init() {...})(): schedule every row with enabled = 1; a throw
\* of scheduleRule ends the process at load
init ==
  /\ impl = "sqlite" /\ booted = "no"
  /\ \A r \in db : r.enabled = 1 => WellFormed(r.stop_time) /\ WellFormed(r.start_time)
  /\ LET reg == scheduleRows(Registry(jobs, cronTasks), {r \in db : r.enabled = 1})
     IN /\ jobs' = reg.map
        /\ cronTasks' = reg.tasks
  /\ latest' = [id \in {r.id : r \in {x \in db : x.enabled = 1}} |->
                  CHOOSE r \in db : r.id = id]
  /\ booted' = "yes"
  /\ UNCHANGED <<impl, evalVars, db, seq, jsonVars, inflight>>

(***************************************************************************)
(* json server: the registry schedulers                                    *)
(***************************************************************************)
\* `r_${Date.now()}`
ruleId(ms) == <<"r_", ms>>

\* cronForTime(t, tz).expr: a field parseInt makes NaN of becomes 0
cronForTime(t) ==
  IF WellFormed(t) THEN LET hm == SplitTime(t) IN CronAt(hm[2], hm[1]) ELSE CronAt(0, 0)

unschedule(reg, id) ==
  IF id \notin DOMAIN reg.map THEN reg
  ELSE LET set == reg.map[id]
       IN Registry(MapDelete(reg.map, id), reg.tasks \ {set[1], set[2], set[3]})

\* Math.max(1, Math.min(60, parseInt(rule.enforce_every || '5', 10)))
every(rule) == Max(1, Min(60, IF rule.enforce_every = 0 THEN 5 ELSE rule.enforce_every))

scheduleRuleJson(reg, rule) ==
  LET r0 == unschedule(reg, rule.id)
      job1 == CronTask("job1", cronForTime(rule.stop), rule)
      job2 == CronTask("job2", cronForTime(rule.start), rule)
      job3 == CronTask("job3", CronEvery(every(rule)), rule)
  IN Registry(MapSet(r0.map, rule.id, <<job1, job2, job3>>),
              r0.tasks \cup {job1, job2, job3})

\* for (const r of rules) scheduleRule(r), in array order
RECURSIVE scheduleRules(_, _)
scheduleRules(reg, rules) ==
  IF Len(rules) = 0 THEN reg
  ELSE scheduleRules(scheduleRuleJson(reg, Head(rules)), Tail(rules))

\* history: the rule object each id was last given to scheduleRule with
RECURSIVE lastGiven(_, _)
lastGiven(map, rules) ==
  IF Len(rules) = 0 THEN map
  ELSE lastGiven(MapSet(map, Head(rules).id, Head(rules)), Tail(rules))

\* app.listen(PORT, async () => { await bootstrapSchedules() }): readRules is
\* issued
listen ==
  /\ impl = "json" /\ booted = "no"
  /\ booted' = "reading"
  /\ UNCHANGED <<impl, latest, evalVars, sqliteVars, jsonVars, cronTasks, inflight>>

\* bootstrapSchedules after its await: every rule read is scheduled
bootstrapSchedules ==
  /\ impl = "json" /\ booted = "reading"
  /\ LET reg == scheduleRules(Registry(schedulers, cronTasks), rulesFile)
     IN /\ schedulers' = reg.map
        /\ cronTasks' = reg.tasks
  /\ latest' = lastGiven(latest, rulesFile)
  /\ booted' = "yes"
  /\ UNCHANGED <<impl, evalVars, sqliteVars, rulesFile, clock, reqs, inflight>>

(***************************************************************************)
(* The ad platform's inventory and names                                   *)
(***************************************************************************)
\* a name is its sequence of characters
ToLowerCase(str) ==
  [i \in 1..Len(str) |-> CASE str[i] = "S" -> "s" [] str[i] = "A" -> "a" [] OTHER -> str[i]]

\* hay.includes(needle)
StrIncludes(hay, needle) ==
  \E i \in 0..(Len(hay) - Len(needle)) : SubSeq(hay, i + 1, i + Len(needle)) = needle

\* the listing of the account, page by page
InventoryPages ==
  << << [id |-> "c1", name |-> <<"S", "a">>], [id |-> "c2", name |-> <<"s", "a">>] >>,
     << [id |-> "c3", name |-> <<"b">>] >> >>

\* items.map(x => x.id)
MapIds(items) == [i \in 1..Len(items) |-> items[i].id]

\* sqlite server, fetchByNameFilter: the ids of the first page's items whose
\* name includes rule.name_filter
fetchByNameFilter(rule, data) ==
  LET keep(x) == StrIncludes(x.name, rule.name_filter) IN MapIds(SelectSeq(data, keep))

\* json server, findTargetsByName: the ids one page adds to out
pageMatches(nameContains, data) ==
  LET keep(it) == Len(nameContains) = 0
                  \/ StrIncludes(ToLowerCase(it.name), ToLowerCase(nameContains))
  IN MapIds(SelectSeq(data, keep))

(***************************************************************************)
(* Enforcement invocations.  A cron callback runs to its first await in    *)
(* the step that fires it; every later step is the completion of the       *)
(* request (or timer) it awaits.                                           *)
(***************************************************************************)
\* most invocations in flight at once
MaxRuns == 2
\* json server, findTargetsByName: for (let i = 0; i < 10 && url; i++)
MaxPages == 10

\* what a status post comes back with in an enforcement run
RunOutcomes == {OkOutcome, ErrCode(4), ErrCode(100)}

\* local times (hour, minute) at which the periodic tasks are seen firing
FireTimes == {<<0, 0>>, <<6, 0>>, <<21, 0>>, <<22, 0>>, <<23, 30>>}

Zeros(n) == [j \in 1..n |-> 0]
RemoveAt(sq, k) == SubSeq(sq, 1, k - 1) \o SubSeq(sq, k + 1, Len(sq))

\* the invocation a fire of task starts, at local weekday dow, time hm, on a
\* server whose zone is `ahead` minutes ahead
Run(task, desired, dow, hm, ahead) ==
  [fired |-> task.kind, rule |-> task.rule, desired |-> desired, dow |-> dow,
   at |-> hm, ahead |-> ahead,
   pc |-> "fired", outcome |-> "none",
   targets |-> <<>>, i |-> 0, attempt |-> 0,
   calls |-> <<>>, alerts |-> <<>>, ok |-> <<>>,
   listed |-> 0, page |-> 0, listAlerts |-> 0, sink |-> <<>>]

\* the status post for target j is sent
post(run, j) ==
  [run EXCEPT !.pc = "posting", !.i = j, !.attempt = 1, !.calls[j] = @ + 1]

\* the loop over the targets is entered: sqlite enforce returns at once on
\* an empty list, before its loop and its last_run update; the loop of json
\* setStatusOnObjects ends at once
beginLoop(run, targets) ==
  IF Len(targets) = 0
    THEN [run EXCEPT !.targets = <<>>, !.pc = "done",
                     !.outcome = IF impl = "sqlite" THEN "noop" ELSE "completed"]
    ELSE post([run EXCEPT !.targets = targets, !.calls = Zeros(Len(targets)),
                          !.alerts = Zeros(Len(targets))], 1)

\* the loop goes on to the next target, or ends
nextTarget(run, ok) ==
  LET r1 == [run EXCEPT !.ok = Append(@, ok)]
  IN IF run.i < Len(run.targets) THEN post(r1, run.i + 1)
     ELSE [r1 EXCEPT !.pc = "done", !.outcome = "completed"]

\* a resolution that asks the filter first
getTargetsByFilterFirst(rule) ==
  IF Len(rule.name_filter) > 0 THEN [fetch |-> TRUE, ids |-> <<>>]
  ELSE [fetch |-> FALSE, ids |-> JSONparse(rule.target_ids)]

\* sqlite server, getTargets: the ids, or a listing to fetch
getTargets(rule) ==
  LET ids == JSONparse(rule.target_ids)
  IN IF Len(ids) > 0 THEN [fetch |-> FALSE, ids |-> ids]
     ELSE IF Len(rule.name_filter) = 0 THEN [fetch |-> FALSE, ids |-> <<>>]
     ELSE [fetch |-> TRUE, ids |-> <<>>]

\* sqlite server, enforce(rule, desired) up to its first pending request
enforce(run) ==
  IF ~Includes(JSONparse(run.rule.days_of_week), WeekdayShort(run.dow))
    THEN [run EXCEPT !.pc = "done", !.outcome = "skipped"]
    ELSE LET t == getTargets(run.rule)
         IN IF t.fetch THEN [run EXCEPT !.pc = "listing", !.listed = 1]
            ELSE beginLoop(run, t.ids)

\* callbacks of which the periodic one does not pass the weekday test
firedSqliteUngated(task, dow, hm) ==
  IF task.kind = "stop" THEN enforce(Run(task, "PAUSED", dow, hm, 0))
  ELSE IF task.kind = "start" THEN enforce(Run(task, "ACTIVE", dow, hm, 0))
  ELSE LET run == Run(task, periodicEnforceDesired(task.rule, hm[1] * MinPerHour + hm[2]),
                      dow, hm, 0)
           t == getTargets(run.rule)
       IN IF t.fetch THEN [run EXCEPT !.pc = "listing", !.listed = 1]
          ELSE beginLoop(run, t.ids)

\* sqlite server: the callback of a task fired at local weekday dow, time hm
firedSqlite(task, dow, hm) ==
  LET desired == CASE task.kind = "stop" -> "PAUSED"
                   [] task.kind = "start" -> "ACTIVE"
                   [] OTHER -> periodicEnforceDesired(task.rule, hm[1] * MinPerHour + hm[2])
  IN enforce(Run(task, desired, dow, hm, 0))

\* json server: rule.ids && rule.ids.length > 0 ? rule.ids : await findTargetsByName(...)
resolveIds(rule) ==
  IF Len(rule.ids) > 0 THEN [fetch |-> FALSE, ids |-> rule.ids]
  ELSE [fetch |-> TRUE, ids |-> <<>>]

\* json server: the callback of job1, job2 or job3 (enforceRule), fired at
\* local weekday dow, time hm, the server's zone being `ahead` minutes ahead
firedJson(task, dow, hm, ahead) ==
  LET status == CASE task.kind = "job1" -> "PAUSED"
                  [] task.kind = "job2" -> "ACTIVE"
                  [] OTHER -> enforceRuleStatus(task.rule,
                                ServerNow(dow, hm[1] * MinPerHour + hm[2], ahead))
      run == Run(task, status, dow, hm, ahead)
      t == resolveIds(task.rule)
  IN IF t.fetch THEN [run EXCEPT !.pc = "listing", !.listed = 1, !.page = 1]
     ELSE beginLoop(run, t.ids)

\* the step leaves invocation run as `new`; sqlite enforce ends a completed
\* loop with UPDATE rules SET last_run = datetime("now") WHERE id = rule.id
Becomes(run, new) ==
  /\ inflight' = (inflight (-) SetToBag({run})) (+) SetToBag({new})
  /\ db' = IF impl = "sqlite" /\ new.pc = "done" /\ new.outcome = "completed"
             THEN {IF r.id = new.rule.id THEN [r EXCEPT !.last_run = "now"] ELSE r : r \in db}
             ELSE db
  /\ UNCHANGED <<impl, latest, evalVars, booted, seq, jobs, jsonVars, cronTasks>>

\* the invocations in flight
Runs == BagToSet(inflight)

\* the local times at which a task with this expression is seen firing
FireInstants(expr) ==
  IF expr.form = "at" THEN {<<expr.hour, expr.minute>>}
  ELSE {hm \in FireTimes : CronMatches(expr, hm[1], hm[2])}

\* a live task fires; at most `limit` invocations are in flight
Fire(limit, days) ==
  /\ BagCardinality(inflight) < limit
  /\ \E task \in cronTasks, dow \in days :
       \E hm \in FireInstants(task.expr) :
         IF impl = "sqlite"
           THEN inflight' = inflight (+) SetToBag({firedSqlite(task, dow, hm)})
           ELSE \E ahead \in SampleAhead :
                  inflight' = inflight (+) SetToBag({firedJson(task, dow, hm, ahead)})
  /\ UNCHANGED <<impl, latest, evalVars, booted, sqliteVars, jsonVars, cronTasks>>

\* the inventory listing request of an invocation comes back
ListResponse ==
  \E run \in Runs :
    /\ run.pc = "listing"
    /\ IF impl = "sqlite"
         THEN \E good \in BOOLEAN :
                Becomes(run, IF good
                             THEN beginLoop(run, fetchByNameFilter(run.rule, InventoryPages[1]))
                             ELSE [run EXCEPT !.pc = "done", !.outcome = "rejected"])
         ELSE \E res \in {"ok", "notok", "throw"} :
                LET out == run.targets \o pageMatches(run.rule.name_contains,
                                                      InventoryPages[run.page])
                    more == run.page < Len(InventoryPages) /\ run.page < MaxPages
                IN Becomes(run,
                     CASE res = "ok" /\ more ->
                            [run EXCEPT !.targets = out, !.page = @ + 1, !.listed = @ + 1]
                       [] res = "ok" /\ ~more -> beginLoop(run, out)
                       [] res = "notok" ->
                            [run EXCEPT !.pc = "notifying", !.listAlerts = @ + 1]
                       [] OTHER -> [run EXCEPT !.pc = "done", !.outcome = "rejected"])

\* a catch block that reports nothing
catchSilently(run) == [run EXCEPT !.pc = "notifying"]

\* the catch block around the status post of target run.i: the failure is
\* reported (slackNotify / postSlack) and the loop goes on after it
catchFailure(run) == [run EXCEPT !.pc = "notifying", !.alerts[run.i] = @ + 1]

\* the status post of an invocation comes back
PostResponse ==
  \E run \in Runs, o \in RunOutcomes :
    /\ run.pc = "posting"
    /\ Becomes(run,
         IF impl = "sqlite"
           THEN CASE setStatusAfter(run.attempt, o) = "return" -> nextTarget(run, TRUE)
                  [] setStatusAfter(run.attempt, o) = "retry" -> [run EXCEPT !.pc = "delay"]
                  [] OTHER -> catchFailure(run)
           ELSE IF o.ok THEN nextTarget(run, TRUE) ELSE catchFailure(run))

\* sqlite setStatus: the delay before the next attempt is over
DelayOver ==
  \E run \in Runs :
    /\ run.pc = "delay"
    /\ Becomes(run, [run EXCEPT !.pc = "posting", !.attempt = @ + 1, !.calls[run.i] = @ + 1])

\* a notification whose failure reaches the caller
afterNotifyPropagates(run, delivered) ==
  LET r1 == [run EXCEPT !.sink = Append(@, delivered)]
  IN IF ~delivered THEN [r1 EXCEPT !.pc = "done", !.outcome = "rejected"]
     ELSE IF run.i = 0 THEN beginLoop(r1, r1.targets) ELSE nextTarget(r1, FALSE)

\* await slackNotify(...) / await postSlack(...) is over, the post to the
\* webhook delivered or failed (try / catch inside): the caller goes on
afterNotify(run, delivered) ==
  LET r1 == [run EXCEPT !.sink = Append(@, delivered)]
  IN IF run.i = 0 THEN beginLoop(r1, r1.targets) ELSE nextTarget(r1, FALSE)

\* the post to the alert webhook has ended, well or not
NotifyDone ==
  \E run \in Runs, delivered \in BOOLEAN :
    /\ run.pc = "notifying"
    /\ Becomes(run, afterNotify(run, delivered))

\* the promise of a finished invocation settles
Settle ==
  /\ \E run \in Runs :
       /\ run.pc = "done"
       /\ inflight' = inflight (-) SetToBag({run})
  /\ UNCHANGED <<impl, latest, evalVars, booted, sqliteVars, jsonVars, cronTasks>>

(***************************************************************************)
(* json server: rules.json and its handlers.  A handler is one step up to  *)
(* each await (readRules, writeRules) and one step after it.               *)
(***************************************************************************)
\* most handlers between two awaits at once
MaxReqs == 2
\* last value of Date.now() seen
MaxClock == 2

\* the rule POST /api/rules builds from request body b at Date.now() = ms
createdRule(ms, b) ==
  [id |-> ruleId(ms),
   ids |-> IF IsSome(b.ids) THEN Val(b.ids) ELSE <<>>,
   name_contains |-> b.name_contains,
   stop |-> IF IsSome(b.stop) THEN Val(b.stop) ELSE TimeText(23, 0),
   start |-> IF IsSome(b.start) THEN Val(b.start) ELSE TimeText(0, 1),
   days |-> IF IsSome(b.days) THEN Val(b.days) ELSE DefaultDays,
   enforce_every |-> IF b.enforce_every = 0 THEN 5 ELSE b.enforce_every]

\* data.rules.findIndex(r => r.id === rid), 0 when there is none
findIndex(rules, rid) ==
  IF \E i \in 1..Len(rules) : rules[i].id = rid
    THEN CHOOSE i \in 1..Len(rules) :
           rules[i].id = rid /\ \A j \in 1..(i - 1) : rules[j].id # rid
    ELSE 0

\* time passes
Tick ==
  /\ impl = "json" /\ clock < MaxClock
  /\ clock' = clock + 1
  /\ UNCHANGED <<impl, latest, evalVars, booted, sqliteVars, rulesFile, schedulers, reqs,
                 cronTasks, inflight>>

\* app.post('/api/rules') up to await readRules()
PostStart(bodies, limit) ==
  /\ impl = "json" /\ booted # "no"
  /\ Len(reqs) < limit
  /\ Len(rulesFile) + Len(SelectSeq(reqs, LAMBDA q : q.op = "post")) < MaxRules
  /\ \E b \in bodies :
       reqs' = Append(reqs, [op |-> "post", pc |-> "reading", rid |-> ruleId(clock),
                             rule |-> createdRule(clock, b), data |-> <<>>])
  /\ UNCHANGED <<impl, latest, evalVars, booted, sqliteVars, rulesFile, schedulers, clock,
                 cronTasks, inflight>>

\* app.delete('/api/rules/:id') up to await readRules()
DeleteStart(limit) ==
  /\ impl = "json" /\ booted # "no"
  /\ Len(reqs) < limit
  /\ \E ms \in 0..clock :
       reqs' = Append(reqs, [op |-> "delete", pc |-> "reading", rid |-> ruleId(ms),
                             rule |-> [id |-> ruleId(ms)], data |-> <<>>])
  /\ UNCHANGED <<impl, latest, evalVars, booted, sqliteVars, rulesFile, schedulers, clock,
                 cronTasks, inflight>>

\* readRules() has resolved: POST pushes its rule and calls writeRules;
\* DELETE splices the first rule with the id and calls writeRules, or
\* answers 404.  The file is capped at MaxRules rules.
ReadDone ==
  /\ \E k \in 1..Len(reqs) :
       LET q == reqs[k]
           idx == findIndex(rulesFile, q.rid)
       IN /\ q.pc = "reading"
          /\ q.op = "post" => Len(rulesFile) < MaxRules
          /\ reqs' = IF q.op = "post"
                       THEN [reqs EXCEPT ![k] = [q EXCEPT !.pc = "writing",
                                                          !.data = Append(rulesFile, q.rule)]]
                     ELSE IF idx > 0
                       THEN [reqs EXCEPT ![k] = [q EXCEPT !.pc = "writing",
                                                          !.data = RemoveAt(rulesFile, idx)]]
                     ELSE RemoveAt(reqs, k)
  /\ UNCHANGED <<impl, latest, evalVars, booted, sqliteVars, rulesFile, schedulers, clock,
                 cronTasks, inflight>>

\* writeRules(data) has resolved: POST calls scheduleRule(rule), DELETE
\* calls unschedule(rid); the handler answers
WriteDone ==
  /\ \E k \in 1..Len(reqs) :
       LET q == reqs[k]
           reg == IF q.op = "post" THEN scheduleRuleJson(Registry(schedulers, cronTasks), q.rule)
                  ELSE unschedule(Registry(schedulers, cronTasks), q.rid)
       IN /\ q.pc = "writing"
          /\ rulesFile' = q.data
          /\ schedulers' = reg.map
          /\ cronTasks' = reg.tasks
          /\ latest' = IF q.op = "post" THEN MapSet(latest, q.rid, q.rule)
                        ELSE MapDelete(latest, q.rid)
          /\ reqs' = RemoveAt(reqs, k)
  /\ UNCHANGED <<impl, evalVars, booted, sqliteVars, clock, inflight>>

(***************************************************************************)
(* Specifications                                                          *)
(***************************************************************************)
EvalIdle == ev = [pc |-> "idle"] /\ ap = [pc |-> "idle"]

\* a server process starts over the rules an earlier process stored
StartOver(rows, rules) ==
  /\ EvalIdle
  /\ impl \in {"sqlite", "json"}
  /\ booted = "no" /\ jobs = <<>> /\ schedulers = <<>> /\ cronTasks = {}
  /\ inflight = <<>> /\ reqs = <<>> /\ latest = <<>>
  /\ IF impl = "sqlite"
       THEN /\ db \in rows /\ seq = Cardinality(db)
            /\ rulesFile = <<>> /\ clock = 0
       ELSE /\ rulesFile \in rules /\ clock = 1   \* the stored rules date from 0
            /\ db = {} /\ seq = 0

Enforcement == ListResponse \/ PostResponse \/ DelayOver \/ NotifyDone \/ Settle

Sa == <<"s", "a">>

\* request bodies of the rules the enforcement runs are checked on
RunBody ==
  [target_ids |-> Some(<<"a", "b">>), name_filter |-> Sa,
   stop_time |-> TimeText(22, 0), start_time |-> TimeText(6, 0),
   enforce_window_minutes |-> 0, days_of_week |-> None, enabled |-> TRUE]
RunBodies ==
  { RunBody,
    [RunBody EXCEPT !.target_ids = Some(<<"a">>), !.name_filter = <<>>,
                    !.days_of_week = Some(<<"Mon">>)],
    [RunBody EXCEPT !.target_ids = Some(<<"a">>), !.start_time = TimeText(22, 0)],
    [RunBody EXCEPT !.target_ids = Some(<<"a">>), !.days_of_week = Some(<<>>)],
    [RunBody EXCEPT !.target_ids = None],
    [RunBody EXCEPT !.target_ids = Some(<<>>), !.name_filter = <<>>] }

RunBodyJson ==
  [ids |-> Some(<<"a", "b">>), name_contains |-> Sa,
   stop |-> Some(TimeText(22, 0)), start |-> Some(TimeText(6, 0)),
   days |-> None, enforce_every |-> 30]
RunBodiesJson ==
  { RunBodyJson,
    [RunBodyJson EXCEPT !.ids = Some(<<"a">>), !.name_contains = <<>>, !.days = Some(<<1>>)],
    [RunBodyJson EXCEPT !.ids = Some(<<"a">>), !.start = Some(TimeText(22, 0))],
    [RunBodyJson EXCEPT !.ids = Some(<<"a">>), !.days = Some(<<>>)],
    [RunBodyJson EXCEPT !.ids = None],
    [RunBodyJson EXCEPT !.ids = Some(<<>>), !.name_contains = <<>>] }

\* local weekdays the fires are seen on: Monday, Tuesday
RunDays == {1, 2}

\* one stored rule, one enforcement invocation at a time
RunInit ==
  StartOver({{insertedRow(1, b)} : b \in RunBodies},
            {<<createdRule(0, b)>> : b \in RunBodiesJson})

RunNext == init \/ listen \/ bootstrapSchedules \/ Fire(1, RunDays) \/ Enforcement

SpecRun == RunInit /\ [][RunNext]_vars

\* one stored rule, invocations overlapping
OverlapBodies ==
  {[RunBody EXCEPT !.target_ids = Some(<<"a">>)], [RunBody EXCEPT !.target_ids = None]}
OverlapBodiesJson ==
  {[RunBodyJson EXCEPT !.ids = Some(<<"a">>)], [RunBodyJson EXCEPT !.ids = None]}
OverlapInit ==
  StartOver({{insertedRow(1, b)} : b \in OverlapBodies},
            {<<createdRule(0, b)>> : b \in OverlapBodiesJson})

OverlapNext == init \/ listen \/ bootstrapSchedules \/ Fire(MaxRuns, {1}) \/ Enforcement

SpecOverlap == OverlapInit /\ [][OverlapNext]_vars

\* request bodies of the rules the registry is checked on
SchedBody == [RunBody EXCEPT !.target_ids = Some(<<"a">>), !.name_filter = <<>>]
SchedBodies ==
  {SchedBody, [SchedBody EXCEPT !.enabled = FALSE],
   [SchedBody EXCEPT !.stop_time = TimeText(23, 30)]}

NoPatch ==
  [target_ids |-> None, name_filter |-> None, stop_time |-> None, start_time |-> None,
   enforce_window_minutes |-> None, days_of_week |-> None, enabled |-> None]
SchedPatches ==
  {[NoPatch EXCEPT !.enabled = Some(FALSE)], [NoPatch EXCEPT !.enabled = Some(TRUE)],
   [NoPatch EXCEPT !.stop_time = Some(TimeText(23, 30))],
   [NoPatch EXCEPT !.stop_time = Some(TimeText(22, 0)), !.enabled = Some(TRUE)]}

SchedBodyJson == [RunBodyJson EXCEPT !.ids = Some(<<"a">>), !.name_contains = <<>>]
SchedBodiesJson == {SchedBodyJson, [SchedBodyJson EXCEPT !.stop = Some(TimeText(23, 30))]}

\* no stored rule or one; creates, updates and deletes, the handlers of the
\* json server overlapping
SchedInit ==
  StartOver({{}} \cup {{insertedRow(1, b)} : b \in SchedBodies},
            {<<>>, <<createdRule(0, SchedBodyJson)>>})

SchedNext ==
  \/ init \/ PostRules(SchedBodies) \/ PatchRules(SchedPatches) \/ DeleteRules
  \/ listen \/ bootstrapSchedules \/ Tick
  \/ PostStart({SchedBodyJson}, MaxReqs) \/ DeleteStart(MaxReqs) \/ ReadDone \/ WriteDone

SpecSched == SchedInit /\ [][SchedNext]_vars

\* no stored rule or one; creates, updates and deletes one after another,
\* and the fires of the scheduled tasks
TriggersInit ==
  StartOver({{}} \cup {{insertedRow(1, b)} : b \in SchedBodies},
            {<<>>} \cup {<<createdRule(0, b)>> : b \in SchedBodiesJson})

TriggersNext ==
  \/ init \/ PostRules(SchedBodies) \/ PatchRules(SchedPatches) \/ DeleteRules
  \/ listen \/ bootstrapSchedules \/ Tick
  \/ PostStart(SchedBodiesJson, 1) \/ DeleteStart(1) \/ ReadDone \/ WriteDone
  \/ Fire(1, {1}) \/ PostResponse \/ DelayOver \/ NotifyDone \/ Settle

SpecTriggers == TriggersInit /\ [][TriggersNext]_vars

(***************************************************************************)
(* Properties                                                              *)
(***************************************************************************)
\* the status post of run is in flight for this object
PostingTo(run) == IF run.pc = "posting" THEN {run.targets[run.i]} ELSE {}

\* C1: for every rule at most one enforcement invocation executes at a
\* time, so two status posts for the same object issued by the same rule
\* are never in flight together.
OneApplyPerObject ==
  \A r1 \in Runs, r2 \in Runs :
    (r1.rule.id = r2.rule.id /\ PostingTo(r1) \cap PostingTo(r2) # {})
      => (r1 = r2 /\ CopiesIn(r1, inflight) = 1)

\* the ids the registry holds a trigger set for
RegistryIds == IF impl = "sqlite" THEN DOMAIN jobs ELSE DOMAIN schedulers

\* the ids of the stored rules that are enabled (every rule of rules.json
\* is: the json server has no enabled flag)
EnabledIds ==
  IF impl = "sqlite" THEN {r.id : r \in {x \in db : x.enabled = 1}}
  ELSE {rulesFile[i].id : i \in 1..Len(rulesFile)}

\* startup is over and no request handler is between two awaits
Quiescent == booted = "yes" /\ reqs = <<>>

\* C2: after any sequence of create, update, delete and startup operations
\* the registry holds a trigger set for a rule id if and only if that rule
\* is in the store with enabled = true.
RegistryIffEnabled == Quiescent => RegistryIds = EnabledIds

\* the stop and start times of the rule a trigger closes over
StopOf(rule) == IF impl = "sqlite" THEN rule.stop_time ELSE rule.stop
StartOf(rule) == IF impl = "sqlite" THEN rule.start_time ELSE rule.start

\* the three triggers built from one configuration; none can be built
\* from malformed times
TriggersOf(rule) ==
  IF ~(WellFormed(StopOf(rule)) /\ WellFormed(StartOf(rule))) THEN {}
  ELSE IF impl = "sqlite"
    THEN {CronTask("stop", CronAt(rule.stop_time[3], rule.stop_time[1]), rule),
          CronTask("start", CronAt(rule.start_time[3], rule.start_time[1]), rule),
          CronTask("enforce", CronEvery(everyXMins(rule)), rule)}
    ELSE {CronTask("job1", CronAt(rule.stop[3], rule.stop[1]), rule),
          CronTask("job2", CronAt(rule.start[3], rule.start[1]), rule),
          CronTask("job3", CronEvery(every(rule)), rule)}

\* the most recent configuration of id is an enabled one
LatestEnabled(id) ==
  id \in DOMAIN latest /\ (impl = "sqlite" => latest[id].enabled = 1)

\* the live triggers of every id are those of its most recent enabled
\* configuration
LiveTriggersOfLatest ==
  \A id \in {t.rule.id : t \in cronTasks} \cup DOMAIN latest :
    {t \in cronTasks : t.rule.id = id}
      = IF LatestEnabled(id) THEN TriggersOf(latest[id]) ELSE {}

\* every invocation this step starts is started by a trigger of the most
\* recent enabled configuration of its rule
StartsFromLatest ==
  BagCardinality(inflight') > BagCardinality(inflight)
    => \A run \in BagToSet(inflight') :
         CopiesIn(run, inflight') > CopiesIn(run, inflight)
           => LatestEnabled(run.rule.id) /\ run.rule = latest[run.rule.id]

\* C3: after any sequence of schedule and update operations the live
\* triggers of a rule id are exactly the three triggers built from its most
\* recent enabled configuration, and no trigger of an earlier configuration
\* starts a new invocation once the update has returned.
NoStaleTriggers == [](LiveTriggersOfLatest) /\ [][StartsFromLatest]_vars

\* a rule was rescheduled after one of its runs had completed, and a
\* trigger of the new configuration has fired
FiredAfterUpdate ==
  \/ impl = "sqlite" /\ \E run \in Runs : run.rule.last_run = "now"
  \/ /\ impl = "json" /\ Len(rulesFile) = 2 /\ rulesFile[1].id = rulesFile[2].id
     /\ rulesFile[1].stop # rulesFile[2].stop
     /\ \E run \in Runs : run.rule = rulesFile[2]


\* the reference evaluator: the state of a window at local minute m
ReferenceState(stop_m, start_m, m) ==
  IF stop_m = start_m THEN "PAUSED"
  ELSE IF stop_m < start_m
    THEN (IF stop_m <= m /\ m < start_m THEN "PAUSED" ELSE "ACTIVE")
    ELSE (IF m >= stop_m \/ m < start_m THEN "PAUSED" ELSE "ACTIVE")

MinuteOf(t) == t[1] * MinPerHour + t[3]

\* C4: on an allowed weekday, at every local minute of the day, the state
\* the periodic check computes equals the reference evaluator's.
PeriodicMatchesReference ==
  (ev.pc = "evaluated" /\ (Len(ev.days) = 0 \/ Includes(ev.days, ev.dow)))
    => LET ref == ReferenceState(MinuteOf(ev.stop), MinuteOf(ev.start), ev.m)
       IN ev.sqlite = ref /\ ev.json = ref

\* the invocation has issued a status post
HasPosted(run) == \E j \in 1..Len(run.calls) : run.calls[j] > 0

\* C5: a rule whose stop_time equals its start_time never activates its
\* targets: every status post any of its triggers issues carries PAUSED.
DegenerateWindowOnlyPauses ==
  \A run \in Runs :
    (StopOf(run.rule) = StartOf(run.rule) /\ HasPosted(run)) => run.desired = "PAUSED"

\* the weekdays the rule of an invocation lists, as numbers 0..6
DaysOf(rule) ==
  IF impl = "sqlite"
    THEN {d \in Weekdays : Includes(JSONparse(rule.days_of_week), WeekdayShort(d))}
    ELSE {d \in Weekdays : Includes(rule.days, d)}
NoDays(rule) ==
  IF impl = "sqlite" THEN Len(JSONparse(rule.days_of_week)) = 0 ELSE Len(rule.days) = 0

\* C6: when the local weekday at the fire of a trigger is not in the rule's
\* non-empty days_of_week, no trigger of the rule, edge or periodic, issues
\* a status post.
OffDayNoAction ==
  \A run \in Runs :
    (~NoDays(run.rule) /\ run.dow \notin DaysOf(run.rule)) => ~HasPosted(run)

\* the invocation the same fire starts for the otherwise identical rule
\* that lists all seven days
AllDaysTwin(run) ==
  IF impl = "sqlite"
    THEN firedSqlite(CronTask(run.fired, CronEvery(1),
                              [run.rule EXCEPT !.days_of_week = JSONstringify(DefaultDaysOfWeek)]),
                     run.dow, run.at)
    ELSE firedJson(CronTask(run.fired, CronEvery(1), [run.rule EXCEPT !.days = DefaultDays]),
                   run.dow, run.at, run.ahead)

\* C7: a rule whose days_of_week is empty is enforced on every weekday as
\* the rule listing all seven days is: each fire issues the calls the fire
\* of that rule issues, with the same status.
EmptyDaysAsAllDays ==
  \A run \in Runs :
    NoDays(run.rule)
      => /\ (run.outcome = "skipped") = (AllDaysTwin(run).outcome = "skipped")
         /\ run.desired = AllDaysTwin(run).desired

\* every call before the last one came back with a transient failure
EarlierTransient == \A k \in 1..(Len(ap.hist) - 1) : transient(ap.hist[k])
LastCall == ap.hist[Len(ap.hist)]

FailuresDoNotAbort ==
  \A run \in Runs :
    /\ \A j \in 1..Len(run.ok) :
         run.calls[j] >= 1 /\ run.alerts[j] = (IF run.ok[j] THEN 0 ELSE 1)
    /\ \A j \in 1..Len(run.alerts) : run.alerts[j] <= 1
    /\ (run.pc = "done" /\ Len(run.calls) > 0)
         => run.outcome = "completed" /\ Len(run.ok) = Len(run.targets)

\* C9, reached: a run over two targets has ended, the first target having
\* failed and the second succeeded
SiblingAfterFailure ==
  \E run \in Runs :
    /\ run.pc = "done" /\ Len(run.targets) = 2
    /\ run.ok = <<FALSE, TRUE>> /\ run.alerts = <<1, 0>>

\* the explicit ids of the rule an invocation closes over
ExplicitIds(rule) == IF impl = "sqlite" THEN JSONparse(rule.target_ids) ELSE rule.ids
FilterOf(rule) == IF impl = "sqlite" THEN rule.name_filter ELSE rule.name_contains

\* C10: for a rule with a non-empty explicit id set, target resolution
\* returns exactly that set in its order and makes no inventory listing
\* call, whether or not a name filter is present too.
ExplicitIdsPrecede ==
  \A run \in Runs :
    Len(ExplicitIds(run.rule)) > 0
      => /\ run.listed = 0
         /\ run.outcome # "skipped" => run.targets = ExplicitIds(run.rule)

\* C10, reached: a rule with ids ["a","b"] and a name filter is posting
ExplicitIdsWithFilter ==
  \E run \in Runs :
    /\ ExplicitIds(run.rule) = <<"a", "b">> /\ Len(FilterOf(run.rule)) > 0
    /\ run.pc = "posting" /\ run.targets = <<"a", "b">>

\* C11: for a rule with neither a non-empty explicit id set nor a name
\* filter, target resolution yields the empty set and the run is a no-op:
\* no status post is issued and no error or alert is raised.
NoTargetsNoOp ==
  \A run \in Runs :
    (Len(ExplicitIds(run.rule)) = 0 /\ Len(FilterOf(run.rule)) = 0)
      => /\ run.targets = <<>> /\ ~HasPosted(run)
         /\ run.listAlerts = 0 /\ run.outcome # "rejected"

(***************************************************************************)
(* The period of the periodic task, from the configured interval           *)
(***************************************************************************)
\* configured intervals the installs draw from: absent or zero (0),
\* negative, inside 1..60, above 60
SampleIntervals == -5..125

IntervalInit ==
  /\ impl = "sqlite" /\ ap = [pc |-> "idle"] /\ ServerIdle
  /\ ev \in [pc : {"configured"}, configured : SampleIntervals, sqlite : {0}, json : {0}]

\* POST /api/rules of each server with the configured interval, and the
\* step of the periodic task its scheduleRule installs
InstallInterval ==
  /\ ev.pc = "configured"
  /\ LET row == insertedRow(1, [SchedBody EXCEPT !.enforce_window_minutes = ev.configured])
         rule == createdRule(0, [SchedBodyJson EXCEPT !.enforce_every = ev.configured])
         none == Registry(<<>>, {})
     IN ev' = [ev EXCEPT
          !.pc = "installed",
          !.sqlite = scheduleRule(none, row).map[row.id].enforce.expr.step,
          !.json = scheduleRuleJson(none, rule).map[rule.id][3].expr.step]
  /\ UNCHANGED <<impl, latest, ap, booted, sqliteVars, jsonVars, cronTasks, inflight>>

IntervalNext == InstallInterval

SpecInterval == IntervalInit /\ [][IntervalNext]_vars

\* C12: whatever the configured reconciliation interval, the period in
\* minutes of the periodic trigger that scheduling installs is an integer
\* in 1..60, and it is the configured value when that is itself in 1..60.
PeriodClamped ==
  ev.pc = "installed"
    => /\ ev.sqlite \in 1..60 /\ ev.json \in 1..60
       /\ ev.configured \in 1..60 => (ev.sqlite = ev.configured /\ ev.json = ev.configured)

(***************************************************************************)
(* Startup over a stored rule set                                          *)
(***************************************************************************)
\* Date.now() of the earlier requests that created the stored rules of the
\* json server (two of them may have been handled in the same millisecond)
StoredTimes == {-1, 0}

\* the tables and files a server may start over
BootRows ==
  {rows \in SUBSET {insertedRow(id, b) : id \in RuleIds, b \in SchedBodies} :
     \A r1 \in rows, r2 \in rows : r1.id = r2.id => r1 = r2}
BootRule == {createdRule(ms, b) : ms \in StoredTimes, b \in SchedBodiesJson \cup {RunBodyJson}}
BootRules == {<<>>} \cup {<<r>> : r \in BootRule} \cup {<<r1, r2>> : r1 \in BootRule, r2 \in BootRule}

BootInit == StartOver(BootRows, BootRules)

BootNext == init \/ listen \/ bootstrapSchedules

SpecBoot == BootInit /\ [][BootNext]_vars

\* the stored rules that are enabled, in stored order
EnabledStored ==
  IF impl = "sqlite"
    THEN LET rows == {r \in db : r.enabled = 1}
         IN [i \in 1..Cardinality(rows) |->
               CHOOSE r \in rows : Cardinality({x \in rows : x.id < r.id}) = i - 1]
    ELSE rulesFile

\* the orders in which n rules can be inserted
Orders(n) == {p \in [1..n -> 1..n] : \A i \in 1..n, j \in 1..n : p[i] = p[j] => i = j}

\* a live insert of each rule of the sequence, one after another
RECURSIVE InsertEach(_, _)
InsertEach(reg, rules) ==
  IF Len(rules) = 0 THEN reg
  ELSE InsertEach(IF impl = "sqlite" THEN scheduleRule(reg, Head(rules))
                  ELSE scheduleRuleJson(reg, Head(rules)),
                  Tail(rules))

\* C13: startup bootstrap over a stored rule set leaves the registry as
\* live inserts of each enabled stored rule into an empty registry leave
\* it, in whatever order they are made; a rule that is not enabled gets no
\* trigger set.
BootstrapAsInserts ==
  booted = "yes"
    => /\ \A p \in Orders(Len(EnabledStored)) :
            Registry(IF impl = "sqlite" THEN jobs ELSE schedulers, cronTasks)
              = InsertEach(Registry(<<>>, {}),
                           [i \in 1..Len(EnabledStored) |-> EnabledStored[p[i]]])
       /\ impl = "sqlite" => \A r \in db : r.enabled = 0 => r.id \notin DOMAIN jobs

(***************************************************************************)
(* Rules with malformed times                                              *)
(***************************************************************************)
MalformedBodies ==
  {SchedBody, [SchedBody EXCEPT !.stop_time = MalformedTime],
   [SchedBody EXCEPT !.start_time = MalformedTime]}
MalformedPatches ==
  {[NoPatch EXCEPT !.start_time = Some(MalformedTime)],
   [NoPatch EXCEPT !.start_time = Some(TimeText(6, 0))]}
MalformedBodiesJson == {SchedBodyJson, [SchedBodyJson EXCEPT !.start = Some(MalformedTime)]}

MalformedInit == StartOver({{}}, {<<>>})

MalformedNext ==
  \/ init \/ PostRules(MalformedBodies) \/ PatchRules(MalformedPatches) \/ DeleteRules
  \/ listen \/ bootstrapSchedules \/ Tick
  \/ PostStart(MalformedBodiesJson, 1) \/ ReadDone \/ WriteDone
  \/ Fire(1, {1}) \/ PostResponse \/ DelayOver \/ NotifyDone \/ Settle

SpecMalformed == MalformedInit /\ [][MalformedNext]_vars

\* C14: when scheduling is asked to install a rule whose stop_time or
\* start_time is malformed, the rule is not installed: the registry has no
\* entry for its id and no timer created for it remains live.
MalformedNotInstalled ==
  \A id \in DOMAIN latest :
    (LatestEnabled(id)
       /\ ~(WellFormed(StopOf(latest[id])) /\ WellFormed(StartOf(latest[id]))))
      => /\ id \notin RegistryIds
         /\ {t \in cronTasks : t.rule.id = id} = {}

\* the inventory lookup of the invocation has failed
LookupFailed(run) == run.outcome = "rejected" \/ run.listAlerts > 0

\* C15: when the inventory lookup of a name-filter rule fails, the run is
\* aborted (no status post is issued in it, not even for objects found on
\* earlier pages), an alert is raised, and the rule's trigger set stays
\* installed.
LookupFailureAborts ==
  \A run \in Runs :
    LookupFailed(run)
      => /\ ~HasPosted(run)
         /\ run.listAlerts = 1
         /\ run.rule.id \in RegistryIds

\* the rules in the store
StoredRules ==
  IF impl = "sqlite" THEN db ELSE {rulesFile[i] : i \in 1..Len(rulesFile)}

\* the registry entry of an id, <<>> when there is none
EntryOf(id) ==
  IF id \notin RegistryIds THEN <<>>
  ELSE IF impl = "sqlite" THEN <<jobs[id]>> ELSE <<schedulers[id]>>

\* a step leaves alone the triggers of every rule it neither updates nor
\* deletes
OtherRulesUntouched ==
  \A B \in StoredRules \cap StoredRules' :
    TriggersOf(B) \subseteq cronTasks
      => TriggersOf(B) \subseteq cronTasks' /\ EntryOf(B.id)' = EntryOf(B.id)

\* C16: operations and failures of one rule never change another rule's
\* triggers: schedule, update, unschedule or delete of rule A and any
\* enforcement failure of rule A leave the registry entry and the live
\* triggers of every other rule B unchanged.
RuleFrame == [][OtherRulesUntouched]_vars

\* the invocation without its record of the sink's answers
SinkBlind(run) == [run EXCEPT !.sink = <<>>]

\* C17: a failure of the alerting sink is never propagated: when notify
\* fails while reporting a per-target failure, the run continues with the
\* remaining targets and completes as it would have, had the notification
\* succeeded.
SinkFailureSwallowed ==
  \A run \in Runs :
    /\ run.pc = "notifying"
         => SinkBlind(afterNotify(run, FALSE)) = SinkBlind(afterNotify(run, TRUE))
    /\ (run.pc = "done" /\ Len(run.calls) > 0 /\ \E k \in 1..Len(run.sink) : ~run.sink[k])
         => /\ run.outcome = "completed" /\ Len(run.ok) = Len(run.targets)
            /\ \A j \in 1..Len(run.targets) : run.calls[j] >= 1

\* C17, reached: the alert for the first of two targets was not delivered,
\* and the second target was posted to and succeeded
SiblingAfterSinkFailure ==
  \E run \in Runs :
    /\ run.pc = "done" /\ Len(run.targets) = 2
    /\ run.sink = <<FALSE>> /\ run.ok = <<FALSE, TRUE>> /\ run.calls[2] = 1

\* the invocation an edge trigger of the same rule starts at the same
\* instant when it applies the state this invocation applies
EdgeTwin(run) ==
  LET paused == run.desired = "PAUSED"
      kind == IF impl = "sqlite" THEN (IF paused THEN "stop" ELSE "start")
              ELSE (IF paused THEN "job1" ELSE "job2")
      task == CronTask(kind, CronEvery(1), run.rule)
  IN IF impl = "sqlite" THEN firedSqlite(task, run.dow, run.at)
     ELSE firedJson(task, run.dow, run.at, run.ahead)

\* the invocation without the reason it was fired for
ReasonBlind(run) == [run EXCEPT !.fired = "any"]

\* every invocation a step starts is the one the edge trigger would start
FiresAsEdge ==
  BagCardinality(inflight') > BagCardinality(inflight)
    => \A run \in BagToSet(inflight') :
         CopiesIn(run, inflight') > CopiesIn(run, inflight)
           => ReasonBlind(run) = ReasonBlind(EdgeTwin(run))

\* C18: the reason for firing is not a behavioural fork: for the same
\* rule, instant and desired state d, an edge fire applying d and a
\* periodic fire whose evaluator yields d have the same effects (weekday
\* gating, target resolution, status posts).
OneEnforcementRoutine == [][FiresAsEdge]_vars

\* C18, reached: a periodic fire on a weekday the rule does not list, and a
\* periodic fire that is posting PAUSED
PeriodicFired ==
  \E run \in Runs :
    /\ run.fired \in {"enforce", "job3"}
    /\ run.dow \notin DaysOf(run.rule)
    /\ run.outcome = "skipped" \/ (run.pc = "posting" /\ run.desired = "PAUSED")

\* the invocation was started by the periodic trigger
Periodic(run) == run.fired \in {"enforce", "job3"}

\* the state the rule of the invocation wants at the instant of its fire
DesiredAtFire(run) ==
  ReferenceState(MinuteOf(StopOf(run.rule)), MinuteOf(StartOf(run.rule)),
                 run.at[1] * MinPerHour + run.at[2])

\* C19: drift is eventually corrected: while the rule stays scheduled and
\* the weekday is allowed, the next periodic fire re-applies the rule's
\* desired state to its targets, so it is neither skipped nor applies the
\* other state.
PeriodicReappliesDesired ==
  \A run \in Runs :
    (Periodic(run) /\ (NoDays(run.rule) \/ run.dow \in DaysOf(run.rule)))
      => run.outcome # "skipped" /\ run.desired = DesiredAtFire(run)

\* a step that changes the triggers leaves every invocation in flight as it
\* is, and a step of an invocation keeps its rule snapshot, its desired
\* state and, once resolved, its targets
InFlightUndisturbed ==
  /\ cronTasks' # cronTasks => inflight' = inflight
  /\ (BagCardinality(inflight') = BagCardinality(inflight) /\ inflight' # inflight)
       => \E old \in BagToSet(inflight), new \in BagToSet(inflight') :
            /\ inflight' = (inflight (-) SetToBag({old})) (+) SetToBag({new})
            /\ new.rule = old.rule /\ new.desired = old.desired
            /\ Len(old.calls) > 0 => new.targets = old.targets

\* C20: cancelling a rule's trigger set (by update, disable or delete) does
\* not interrupt an invocation in progress, whose later calls still use the
\* rule snapshot its trigger was created with; and no invocation started
\* after the cancellation uses the old snapshot.
SnapshotKept == [][InFlightUndisturbed /\ StartsFromLatest]_vars

(***************************************************************************)
(* Name-filter target resolution on its own: one call of                   *)
(* findTargetsByName / fetchByNameFilter against a provider that may       *)
(* attach a next-page cursor to every page it returns                      *)
(***************************************************************************)
\* name filters the calls draw from ('' reaches only findTargetsByName:
\* getTargets returns before fetchByNameFilter on an empty filter)
SampleFilters ==
  {<<>>, <<"s", "a">>, <<"S", "a">>, <<"S">>, <<"a">>, <<"b">>, <<"z">>}

\* json.data of the k-th page the provider serves: the account's listing,
\* repeated for as long as the cursor is followed
PageAt(k) == InventoryPages[((k - 1) % Len(InventoryPages)) + 1]

\* the call is made: nothing fetched yet, out = []
ListInit ==
  /\ impl \in {"sqlite", "json"} /\ ev = [pc |-> "idle"] /\ ServerIdle
  /\ \E f \in SampleFilters :
       /\ impl = "sqlite" => Len(f) > 0
       /\ ap = [pc |-> "fetching", filter |-> f, fetches |-> 0, out |-> <<>>,
                got |-> <<>>, alerts |-> 0]

\* sqlite server, fetchByNameFilter: the one axios.get comes back
ListFetchSqlite ==
  /\ impl = "sqlite" /\ ap.pc = "fetching"
  /\ \E good \in BOOLEAN :
       ap' = IF good
             THEN [ap EXCEPT !.pc = "returned", !.fetches = @ + 1,
                             !.out = fetchByNameFilter([name_filter |-> ap.filter], PageAt(1)),
                             !.got = Append(@, PageAt(1))]
             ELSE [ap EXCEPT !.pc = "rejected", !.fetches = @ + 1]
  /\ UNCHANGED <<impl, latest, ev, booted, sqliteVars, jsonVars, cronTasks, inflight>>

\* json server, findTargetsByName: the fetch of one loop iteration comes
\* back; the loop goes on while i < 10 && url
ListFetchJson ==
  /\ impl = "json" /\ ap.pc = "fetching"
  /\ \E ok \in BOOLEAN, next \in BOOLEAN :
       LET i == ap.fetches + 1
       IN ap' = IF ~ok
                THEN [ap EXCEPT !.pc = "returned", !.fetches = i, !.alerts = @ + 1]
                ELSE [ap EXCEPT
                        !.fetches = i,
                        !.out = @ \o pageMatches(ap.filter, PageAt(i)),
                        !.got = Append(@, PageAt(i)),
                        !.pc = IF i < MaxPages /\ next THEN "fetching" ELSE "returned"]
  /\ UNCHANGED <<impl, latest, ev, booted, sqliteVars, jsonVars, cronTasks, inflight>>

ListNext == ListFetchSqlite \/ ListFetchJson

SpecList == ListInit /\ [][ListNext]_vars

\* the ids of the items of the pages whose name contains the filter, the
\* comparison ignoring case
RECURSIVE ContainingIgnoringCase(_, _)
ContainingIgnoringCase(filter, pages) ==
  IF pages = <<>> THEN <<>>
  ELSE LET has(x) == StrIncludes(ToLowerCase(x.name), ToLowerCase(filter))
       IN MapIds(SelectSeq(Head(pages), has)) \o ContainingIgnoringCase(filter, Tail(pages))

\* C21: name-filter target resolution ends after a bounded number of page
\* fetches even when every page carries a next-page cursor, and its result
\* is exactly the objects of the fetched pages whose name contains the
\* filter, compared case-insensitively.
ResolutionBoundedAndExact ==
  /\ ap.fetches <= MaxPages
  /\ ap.pc = "fetching" => ap.fetches < MaxPages
  /\ ap.pc = "returned" => ap.out = ContainingIgnoringCase(ap.filter, ap.got)

\* the page limit alone
ResolutionBounded == ap.fetches <= MaxPages /\ (ap.pc = "fetching" => ap.fetches < MaxPages)
\* the result of the json server alone
ResolutionExactJson ==
  (impl = "json" /\ ap.pc = "returned") => ap.out = ContainingIgnoringCase(ap.filter, ap.got)

\* the rule ids some running cron task fires for
LiveIds == {t.rule.id : t \in cronTasks}

\* C22: under every interleaving of create and delete requests with each
\* other and with the startup bootstrap, once all of them have completed
\* the rule ids with live triggers are exactly the rule ids of the
\* persisted store (of its enabled rules, on the server that has the flag).
TriggersInSync == Quiescent => LiveIds = EnabledIds

\* no two stored rules have the same id
StoredIdsUnique ==
  IF impl = "sqlite" THEN \A r1 \in db, r2 \in db : r1.id = r2.id => r1 = r2
  ELSE \A i \in 1..Len(rulesFile), j \in 1..Len(rulesFile) :
         rulesFile[i].id = rulesFile[j].id => i = j

\* a create request schedules its new rule in this step
CreateSchedules ==
  /\ booted = "yes" /\ booted' = "yes"
  /\ cronTasks' \ cronTasks # {}
  /\ IF impl = "sqlite" THEN seq' > seq ELSE Len(reqs') < Len(reqs)

\* the triggers running before the create are all still running after it
CreateKeepsOthers == CreateSchedules => cronTasks \subseteq cronTasks'

\* C23: every rule the create operation makes gets an id no other existing
\* rule has, also when two creates are handled at the same clock instant,
\* so scheduling the new rule never stops or replaces the triggers of a
\* different rule.
CreatedIdsUnique == [](StoredIdsUnique) /\ [][CreateKeepsOthers]_vars


\* the invocation ran to completion: it returned, none of its awaits threw
RanToCompletion(run) == run.pc = "done" /\ run.outcome # "rejected"

\* every invocation that ran to completion has left a last_run on its row
CompletedRunsRecorded ==
  impl = "sqlite" =>
    \A run \in Runs :
      RanToCompletion(run) => \A r \in db : r.id = run.rule.id => r.last_run # Null

\* a step that writes a last_run ends an invocation of that rule whose
\* targets have all been attempted
LastRunAfterLoop ==
  impl = "sqlite" =>
    \A r \in db' :
      (\E old \in db : old.id = r.id /\ old.last_run # r.last_run)
        => \E run \in BagToSet(inflight') :
             /\ run.rule.id = r.id /\ run.pc = "done"
             /\ Len(run.ok) = Len(run.targets)
             /\ \A k \in 1..Len(run.targets) : run.calls[k] > 0

\* what a task would start with the last_run of its rule replaced
WithLastRun(task, v) == [task EXCEPT !.rule = [@ EXCEPT !.last_run = v]]

\* the invocation a fire starts does not depend on last_run
LastRunUnread ==
  impl = "sqlite" =>
    \A task \in cronTasks, dow \in RunDays, hm \in FireTimes, v \in {Null, "now"} :
      LET a == firedSqlite(WithLastRun(task, v), dow, hm)
          b == firedSqlite(task, dow, hm)
      IN a.desired = b.desired /\ a.pc = b.pc /\ a.targets = b.targets

\* C24: every enforcement invocation that runs to completion updates the
\* rule's last_run, whether its targets succeeded or failed and also when
\* it had nothing to do (weekday not allowed, empty target set); last_run
\* is written only after all targets of the run have been attempted, and no
\* later invocation's desired state depends on it.
LastRunOnCompletion ==
  [](CompletedRunsRecorded /\ LastRunUnread) /\ [][LastRunAfterLoop]_vars


====
